---- MODULE Spec2Model ----
(***************************************************************************)
(* gms::feature (src/gms/feature.hh): a one-shot cluster capability gate   *)
(* with two observation styles, a shared future (when_enabled()) and       *)
(* listeners connected to a boost::signals2 signal (when_enabled(listener&)*)
(* ).  Reactions (listener::on_enabled) run in a seastar::async context:   *)
(* they are cooperative threads that may suspend, may register further     *)
(* listeners and may destroy listeners.                                    *)
(*                                                                         *)
(* The bodies of feature::feature(service, name, enabled) and of           *)
(* feature::enable() are not part of feature.hh; they are modelled from    *)
(* the specification (sections 3 and 4.1).                                 *)
(***************************************************************************)
EXTENDS Integers, Sequences, FiniteSets

\* ------------------------------------------------------------------ bounds
\* the number of things the users of the gates do in one run: calls of
\* when_enabled(), when_enabled(listener&) and enable(), destructions of
\* listeners, and yields of reactions
MaxCalls == 5

\* the same, in the runs in which both gates are used
MaxCallsTwo == 4

\* the same, in the runs of listeners only on one gate
MaxCallsDeep == 6

Gates == {1, 2}

\* the gates the users call into under Spec; the other gate stays as built
Watched == {1}

\* every registration may bring a listener of its own
Handles == 1..MaxCalls

\* a task is held only by a reaction that has yielded
Tasks == 1..MaxCalls

\* a listener whose scoped_connection _conn holds no live connection
NoConn == <<0, 0>>

VARIABLES
    enabled,      \* feature::_enabled, per gate
    pr,           \* feature::_pr: TRUE when the shared promise has a value
    futures,      \* the futures handed out by when_enabled(); futures of one
                  \* gate that were born in the same state are one element
    slots,        \* feature::_s: per gate, the connection bodies in list order,
                  \* each with its listener h, its ordinal k and its
                  \* connected flag
    conn,         \* listener::_conn: the connection body the listener's
                  \* scoped_connection refers to, <<gate, k>>
    destroyed,    \* listeners whose destructor has run
    holders,      \* the wrapper listeners made by when_enabled(function): each
                  \* is owned by the registration token the call returned
    stack,        \* per task, the call stack of broadcasts and reactions
    initEnabled,  \* history: the 'enabled' argument each gate was built with
    enables,      \* history: number of enable() calls per gate
    log,          \* history: every on_enabled() invocation, in start order
    severed,      \* history: connections cut by a destructor or a re-registration
    reg,          \* history: per listener, its latest when_enabled(listener&) call
    done,         \* history: the broadcasts (signal invocations) that returned
    nextPass,     \* history: id of the next signal invocation
    calls         \* history: number of user calls and yields so far

vars == <<enabled, pr, futures, slots, conn, destroyed, holders, stack, initEnabled,
          enables, log, severed, reg, done, nextPass, calls>>

gateVars == <<enabled, pr, futures, initEnabled, enables>>

\* ----------------------------------------------------------------- helpers
NoReg == [count |-> 0, g |-> 0, k |-> 0, wasEnabled |-> FALSE,
          outerPass |-> 0, outerOrigin |-> "none", outerGate |-> 0]

Top(t) == stack[t][Len(stack[t])]

Pop(t) == SubSeq(stack[t], 1, Len(stack[t]) - 1)

\* a task is executing unless its stack is empty or its innermost reaction
\* has yielded
Active(t) ==
    /\ stack[t] # << >>
    /\ ~(Top(t).kind = "on_enabled" /\ Top(t).susp)

\* the single execution context is free for task t
Runnable(t) == \A u \in Tasks \ {t} : ~Active(u)

\* task t is executing user code: a fresh top-level call, or the body of a
\* reaction; a new top-level call takes the lowest idle task
UserCode(t) ==
    /\ Runnable(t)
    /\ \/ /\ stack[t] = << >>
          /\ \A u \in Tasks : u < t => stack[u] # << >>
       \/ /\ stack[t] # << >>
          /\ Top(t).kind = "on_enabled"
          /\ ~Top(t).susp

\* the when_enabled(listener&) call of listener h has not returned yet
InRegistration(h) ==
    \E t \in Tasks : \E i \in 1..Len(stack[t]) :
        /\ stack[t][i].kind = "pass"
        /\ stack[t][i].origin = "when_enabled"
        /\ stack[t][i].h = h

\* listeners that were never registered are interchangeable: they are taken
\* in index order
FreshInOrder(h) == \A h2 \in Handles : h2 < h => reg[h2].count > 0

\* explicit operator bool() const { return _enabled; }
is_enabled(g) == enabled[g]

\* the connection body c = <<gate, k>> exists and is connected
Live(c) ==
    /\ c # NoConn
    /\ \E i \in 1..Len(slots[c[1]]) : slots[c[1]][i].k = c[2] /\ slots[c[1]][i].on

\* ------------------------------------------------------------ construction
\* feature(service, name, enabled): "creates the gate in the given state"
feature_ctor(init) ==
    /\ enabled = init
    /\ pr = init
    /\ initEnabled = init

Init ==
    /\ \E init \in [Gates -> BOOLEAN] :
          /\ \A g \in Gates \ Watched : ~init[g]
          /\ feature_ctor(init)
    /\ futures = {}
    /\ slots = [g \in Gates |-> << >>]
    /\ conn = [h \in Handles |-> NoConn]
    /\ destroyed = [h \in Handles |-> FALSE]
    /\ holders = {}
    /\ stack = [t \in Tasks |-> << >>]
    /\ enables = [g \in Gates |-> 0]
    /\ log = << >>
    /\ severed = {}
    /\ reg = [h \in Handles |-> NoReg]
    /\ done = {}
    /\ nextPass = 1
    /\ calls = 0

\* ------------------------------------------------- boost::signals2 pieces
\* _s.connect(slot) with the default position: the new connection body goes
\* to the back of the list; k is its ordinal among the gate's connections
connect_at_front(g, h) ==
    [slots EXCEPT ![g] =
        <<[h |-> h, k |-> Len(slots[g]) + 1, on |-> TRUE]>> \o slots[g]]

connect(g, h) ==
    [slots EXCEPT ![g] =
        Append(slots[g], [h |-> h, k |-> Len(slots[g]) + 1, on |-> TRUE])]

\* connection::disconnect() on the body c of the list sl; a no-op on an empty
\* connection and on a body that is disconnected already
disconnect(sl, c) ==
    IF c = NoConn THEN sl
    ELSE [sl EXCEPT ![c[1]] =
            [i \in DOMAIN sl[c[1]] |->
                IF sl[c[1]][i].k = c[2] THEN [sl[c[1]][i] EXCEPT !.on = FALSE]
                ELSE sl[c[1]][i]]]

\* _conn = std::move(conn) in set_connection: the scoped_connection first
\* disconnects the connection it held, then takes the new one
set_connection_keeps_old(sl, h) == sl

set_connection_releases(sl, h) == disconnect(sl, conn[h])

set_connection(h, c) == [conn EXCEPT ![h] = c]

\* the live connection a move-assignment or a destructor of _conn cuts
Dropped(h) == IF Live(conn[h]) THEN {conn[h]} ELSE {}

\* _conn.disconnect() at the head of listener::callback()
callback_keeps_connection(h) == slots

callback_disconnect(h) == disconnect(slots, conn[h])

\* ~scoped_connection() of a destroyed listener
destructor_keeps_connection(h) == slots

destructor_disconnects_all(h) ==
    IF conn[h] = NoConn THEN slots
    ELSE [slots EXCEPT ![conn[h][1]] =
            [i \in DOMAIN slots[conn[h][1]] |->
                [slots[conn[h][1]][i] EXCEPT !.on = FALSE]]]

destructor_disconnect(h) == disconnect(slots, conn[h])

\* the slot call iterator of one signal invocation: the first connection
\* body after position pos, up to the invocation's snapshot end, that is
\* still connected; 0 when the invocation is over
NextCallableStopsAtGap(g, pos, end) ==
    IF pos < end /\ pos < Len(slots[g]) /\ slots[g][pos + 1].on
    THEN pos + 1 ELSE 0

NextCallable(g, pos, end) ==
    LET live == {i \in (pos + 1)..end : i <= Len(slots[g]) /\ slots[g][i].on}
    IN  IF live = {} THEN 0 ELSE CHOOSE i \in live : \A j \in live : i <= j

\* the listener whose connection is the k-th made on gate g
HandleOf(g, k) == (CHOOSE e \in {slots[g][i] : i \in 1..Len(slots[g])} : e.k = k).h

\* the frame of a signal invocation _s(): it walks the list as it was when
\* the invocation began (connections made later are not part of it)
PassFrameOwnSlotOnly(g, origin, h, sl) ==
    [kind |-> "pass", g |-> g,
     pos |-> IF origin = "when_enabled" THEN Len(sl[g]) - 1 ELSE 0,
     end |-> Len(sl[g]), id |-> nextPass,
     origin |-> origin, h |-> h, susp |-> FALSE, logLen |-> Len(log),
     atStart |-> {sl[g][i].k : i \in {j \in 1..Len(sl[g]) : sl[g][j].on}}]

PassFrame(g, origin, h, sl) ==
    [kind |-> "pass", g |-> g, pos |-> 0, end |-> Len(sl[g]), id |-> nextPass,
     origin |-> origin, h |-> h, susp |-> FALSE, logLen |-> Len(log),
     atStart |-> {sl[g][i].k : i \in {j \in 1..Len(sl[g]) : sl[g][j].on}}]

ReactionFrame(p, h) ==
    [kind |-> "on_enabled", g |-> p.g, pos |-> 0, end |-> 0, id |-> p.id,
     origin |-> p.origin, h |-> h, susp |-> FALSE, logLen |-> 0,
     atStart |-> {}]

\* --------------------------------------------------------- shared promise
\* _pr.get_shared_future(): ready at once when the promise has its value
get_shared_future_never_ready(g) == FALSE

get_shared_future(g) == pr[g]

\* future<> when_enabled() const
when_enabled(g) ==
    /\ \E t \in Tasks : UserCode(t)
    /\ futures' = futures \cup {[g |-> g, born |-> pr[g], ready |-> get_shared_future(g)]}
    /\ calls' = calls + 1
    /\ UNCHANGED <<enabled, pr, slots, conn, destroyed, holders, stack,
                   initEnabled, enables, log, severed, reg, done, nextPass>>

\* ------------------------------------------------------------ registration
\* if (_enabled) { _s(); } in when_enabled(listener&)
when_enabled_never_fires(g) == FALSE

when_enabled_always_fires(g) == TRUE

when_enabled_fires(g) == is_enabled(g)

\* the body of when_enabled(listener& callback): connect the slot, hand the
\* connection to the listener, invoke the signal if the gate is enabled.
\* Called from top level or from inside a reaction.  The caller's reference
\* stays valid for the call: nobody destroys the listener, or passes it to a
\* second when_enabled call, before this one has returned.
Registration(t, h, g) ==
    /\ UserCode(t)
    /\ ~destroyed[h]
    /\ ~InRegistration(h)
    /\ FreshInOrder(h)
    /\ LET k  == Len(slots[g]) + 1
           sl == set_connection_releases(connect(g, h), h)
           nested == stack[t] # << >>
       IN  /\ slots' = sl
           /\ conn' = set_connection(h, <<g, k>>)
           /\ severed' = severed \cup Dropped(h)
           /\ reg' = [reg EXCEPT ![h] =
                  [count |-> reg[h].count + 1, g |-> g, k |-> k,
                   wasEnabled |-> enabled[g],
                   outerPass |-> IF nested THEN Top(t).id ELSE 0,
                   outerOrigin |-> IF nested THEN Top(t).origin ELSE "none",
                   outerGate |-> IF nested THEN Top(t).g ELSE 0]]
           /\ IF when_enabled_fires(g)
              THEN /\ stack' = [stack EXCEPT ![t] =
                         Append(stack[t], PassFrame(g, "when_enabled", h, sl))]
                   /\ nextPass' = nextPass + 1
              ELSE UNCHANGED <<stack, nextPass>>
    /\ calls' = calls + 1
    /\ UNCHANGED <<gateVars, destroyed, log, done>>

\* void when_enabled(listener& callback) const, with a listener of the
\* caller's; the wrapper of a registration token is out of the caller's reach
when_enabled_listener(t, h, g) ==
    /\ h \notin holders
    /\ Registration(t, h, g)
    /\ UNCHANGED holders

\* listener_registration when_enabled(noncopyable_function<void()> callback):
\* a new wrapper listener, whose on_enabled() is the functor, is registered
\* and returned inside the token.  The token exists once the call has
\* returned; destroying it destroys the wrapper (listener_destroy).
when_enabled_function(t, h, g) ==
    /\ reg[h].count = 0
    /\ h \notin holders
    /\ Registration(t, h, g)
    /\ holders' = holders \cup {h}

\* -------------------------------------------------------------- transition
\* enable(), modelled from the specification: (1) set enabled, (2) resolve
\* the shared result, (3) invoke the broadcaster.  The specification leaves a
\* second call open; here it performs the same three effects again.  It is
\* called by the owner of the gate, from top level.
enable_keeps_flag(g) == enabled

enable_toggles_flag(g) == [enabled EXCEPT ![g] = ~@]

enable_sets_flag(g) == [enabled EXCEPT ![g] = TRUE]

enable_forgets_promise(g) == pr

enable_resolves(g) == [pr EXCEPT ![g] = TRUE]

enable(t, g) ==
    /\ UserCode(t)
    /\ stack[t] = << >>
    /\ enabled' = enable_sets_flag(g)
    /\ pr' = enable_resolves(g)
    /\ futures' = {IF f.g = g THEN [f EXCEPT !.ready = pr'[g]] ELSE f : f \in futures}
    /\ enables' = [enables EXCEPT ![g] = @ + 1]
    /\ stack' = [stack EXCEPT ![t] = <<PassFrame(g, "enable", 0, slots)>>]
    /\ nextPass' = nextPass + 1
    /\ calls' = calls + 1
    /\ UNCHANGED <<slots, conn, destroyed, holders, initEnabled, log, severed,
                   reg, done>>

\* --------------------------------------------------------------- broadcast
\* one slot call of a signal invocation: listener::callback() disconnects
\* and then enters on_enabled()
signal_call_slot(t) ==
    /\ Runnable(t)
    /\ stack[t] # << >>
    /\ Top(t).kind = "pass"
    /\ LET p == Top(t)
           n == NextCallable(p.g, p.pos, p.end)
       IN  /\ n # 0
           /\ LET e == slots[p.g][n]
              IN  /\ slots' = callback_disconnect(e.h)
                  /\ log' = Append(log, [h |-> e.h, g |-> p.g, k |-> e.k,
                                         pass |-> p.id, origin |-> p.origin,
                                         regh |-> p.h,
                                         wasEnabled |-> enabled[p.g],
                                         wasResolved |-> pr[p.g]])
                  /\ stack' = [stack EXCEPT ![t] =
                        Append(Pop(t), [p EXCEPT !.pos = n]) \o
                        <<ReactionFrame(p, e.h)>>]
    /\ UNCHANGED <<gateVars, conn, destroyed, holders, severed, reg, done,
                   nextPass, calls>>

\* the signal invocation has no callable slot left: _s() returns, and with it
\* the enable() or when_enabled(listener&) call that made it
signal_return(t) ==
    /\ Runnable(t)
    /\ stack[t] # << >>
    /\ Top(t).kind = "pass"
    /\ LET p == Top(t)
       IN  /\ NextCallable(p.g, p.pos, p.end) = 0
           /\ done' = done \cup {[id |-> p.id, g |-> p.g, origin |-> p.origin,
                                   h |-> p.h, logLen |-> p.logLen,
                                   atStart |-> p.atStart]}
    /\ stack' = [stack EXCEPT ![t] = Pop(t)]
    /\ UNCHANGED <<gateVars, slots, conn, destroyed, holders, log, severed, reg,
                   nextPass, calls>>

\* ---------------------------------------------------------------- reactions
\* on_enabled() returns to the signal invocation that called it
on_enabled_return(t) ==
    /\ Runnable(t)
    /\ stack[t] # << >>
    /\ Top(t).kind = "on_enabled"
    /\ ~Top(t).susp
    /\ stack' = [stack EXCEPT ![t] = Pop(t)]
    /\ UNCHANGED <<gateVars, slots, conn, destroyed, holders, log, severed, reg,
                   done, nextPass, calls>>

\* on_enabled() runs in a seastar::async context: it may yield
on_enabled_suspend(t) ==
    /\ Runnable(t)
    /\ stack[t] # << >>
    /\ Top(t).kind = "on_enabled"
    /\ ~Top(t).susp
    /\ stack' = [stack EXCEPT ![t] = Append(Pop(t), [Top(t) EXCEPT !.susp = TRUE])]
    /\ calls' = calls + 1
    /\ UNCHANGED <<gateVars, slots, conn, destroyed, holders, log, severed, reg,
                   done, nextPass>>

on_enabled_resume(t) ==
    /\ \A u \in Tasks : ~Active(u)
    /\ stack[t] # << >>
    /\ Top(t).kind = "on_enabled"
    /\ Top(t).susp
    /\ stack' = [stack EXCEPT ![t] = Append(Pop(t), [Top(t) EXCEPT !.susp = FALSE])]
    /\ UNCHANGED <<gateVars, slots, conn, destroyed, holders, log, severed, reg,
                   done, nextPass, calls>>

\* ------------------------------------------------------------- cancellation
\* ~listener(): the scoped_connection member disconnects.  Any user code may
\* destroy a listener, also a reaction, also the listener's own reaction;
\* destroying a listener that was never registered touches no gate and is
\* left out.
listener_destroy(h) ==
    /\ \E t \in Tasks : UserCode(t)
    /\ ~destroyed[h]
    /\ reg[h].count > 0
    /\ ~InRegistration(h)
    /\ destroyed' = [destroyed EXCEPT ![h] = TRUE]
    /\ slots' = destructor_disconnect(h)
    /\ conn' = [conn EXCEPT ![h] = NoConn]
    /\ severed' = severed \cup Dropped(h)
    /\ calls' = calls + 1
    /\ UNCHANGED <<gateVars, holders, stack, log, reg, done, nextPass>>

\* --------------------------------------------------------------------- spec
\* the users of gate 1 make at most MaxCalls calls and yields; the steps of a
\* call in progress are not counted
Next ==
    \/ calls < MaxCalls /\ \E g \in Watched : when_enabled(g)
    \/ calls < MaxCalls /\ \E t \in Tasks, h \in Handles, g \in Watched :
           when_enabled_listener(t, h, g)
    \/ calls < MaxCalls /\ \E t \in Tasks, g \in Watched : enable(t, g)
    \/ \E t \in Tasks : signal_call_slot(t)
    \/ \E t \in Tasks : signal_return(t)
    \/ \E t \in Tasks : on_enabled_return(t)
    \/ calls < MaxCalls /\ \E t \in Tasks : on_enabled_suspend(t)
    \/ \E t \in Tasks : on_enabled_resume(t)
    \/ calls < MaxCalls /\ \E h \in Handles : listener_destroy(h)

Spec == Init /\ [][Next]_vars

\* the same users, who also register functors
NextFunction ==
    \/ Next
    \/ calls < MaxCalls /\ \E t \in Tasks, h \in Handles, g \in Watched :
           when_enabled_function(t, h, g)

SpecFunction == Init /\ [][NextFunction]_vars

\* listeners that move between the two gates: every call may go to either
\* gate, and the users make at most MaxCallsTwo calls and yields
NextTwo ==
    \/ calls < MaxCallsTwo /\ \E t \in Tasks, h \in Handles, g \in Gates :
           when_enabled_listener(t, h, g)
    \/ calls < MaxCallsTwo /\ \E t \in Tasks, g \in Gates : enable(t, g)
    \/ \E t \in Tasks : signal_call_slot(t)
    \/ \E t \in Tasks : signal_return(t)
    \/ \E t \in Tasks : on_enabled_return(t)
    \/ calls < MaxCallsTwo /\ \E t \in Tasks : on_enabled_suspend(t)
    \/ \E t \in Tasks : on_enabled_resume(t)
    \/ calls < MaxCallsTwo /\ \E h \in Handles : listener_destroy(h)

SpecTwo == Init /\ [][NextTwo]_vars

\* longer runs of the listeners of gate 1: registrations inside broadcasts
\* inside broadcasts; the users make at most MaxCallsDeep calls and yields
NextDeep ==
    \/ calls < MaxCallsDeep /\ \E t \in Tasks, h \in Handles, g \in Watched :
           when_enabled_listener(t, h, g)
    \/ calls < MaxCallsDeep /\ \E t \in Tasks, g \in Watched : enable(t, g)
    \/ \E t \in Tasks : signal_call_slot(t)
    \/ \E t \in Tasks : signal_return(t)
    \/ \E t \in Tasks : on_enabled_return(t)
    \/ calls < MaxCallsDeep /\ \E t \in Tasks : on_enabled_suspend(t)
    \/ \E t \in Tasks : on_enabled_resume(t)
    \/ calls < MaxCallsDeep /\ \E h \in Handles : listener_destroy(h)

SpecDeep == Init /\ [][NextDeep]_vars

\* ---------------------------------------------------- reading the history
\* number of times on_enabled() of listener h was entered
FiredCount(h) == Cardinality({i \in DOMAIN log : log[i].h = h})

\* the connection <<g, k>> has called its slot
FiredConn(g, k) == \E i \in DOMAIN log : log[i].g = g /\ log[i].k = k

\* the connection made by the latest registration of listener h
LastConn(h) == <<reg[h].g, reg[h].k>>

\* no call is in progress and no reaction is suspended
Quiescent == \A t \in Tasks : stack[t] = << >>

\* ------------------------------------------------------------------ claims

\* C1: listeners registered once each, some before enable() and some after,
\* and not destroyed before they fire: none is ever invoked twice, and when
\* every call has returned each one on an enabled gate was invoked exactly once.
C1_ExactlyOnce ==
    \A h \in Handles :
        reg[h].count = 1 =>
            /\ FiredCount(h) <= 1
            /\ (Quiescent /\ is_enabled(reg[h].g) /\ LastConn(h) \notin severed)
                   => FiredCount(h) = 1

C1_Witness ==
    /\ Quiescent
    /\ \E g \in Gates :
          /\ ~initEnabled[g] /\ enables[g] = 1
          /\ \E a, b, c \in Handles :
                /\ a # b
                /\ \A h \in {a, b, c} : reg[h].count = 1 /\ reg[h].g = g /\ FiredCount(h) = 1
                /\ ~reg[a].wasEnabled /\ ~reg[b].wasEnabled /\ reg[c].wasEnabled

C3_CancelledNeverFires ==
    \A h \in Handles :
        (destroyed[h] /\ reg[h].count > 0 /\ ~reg[h].wasEnabled
            /\ LastConn(h) \in severed) => FiredCount(h) = 0

C3_Witness ==
    \E h, h2 \in Handles :
        /\ destroyed[h] /\ reg[h].count > 0 /\ ~reg[h].wasEnabled
        /\ LastConn(h) \in severed
        /\ enables[reg[h].g] > 0
        /\ reg[h2].g = reg[h].g /\ reg[h2].k > reg[h].k /\ FiredCount(h2) = 1
        /\ Quiescent

\* C4: on one gate reactions start in registration order: of two invocations,
\* the earlier one belongs to the earlier connection; in particular this holds
\* within each single signal invocation.
C4_RegistrationOrder ==
    \A i, j \in DOMAIN log :
        (i < j /\ log[i].g = log[j].g) => log[i].k < log[j].k

C4_Witness ==
    /\ Len(log) >= 3
    /\ \A i \in 1..3 : log[i].origin = "enable" /\ log[i].pass = log[1].pass
                        /\ log[i].k = i

C6_Original ==
    \A d \in done :
        d.origin = "enable" =>
            \A k \in d.atStart :
                \E i \in DOMAIN log : i > d.logLen /\ log[i].h = HandleOf(d.g, k)

\* C6 as amended: every connection that is live when enable() begins has
\* called its reaction by the time enable() returns, unless it was severed
\* first (its listener destroyed or registered again).
C6_DeliveredOrSevered ==
    \A d \in done :
        d.origin = "enable" =>
            \A k \in d.atStart : FiredConn(d.g, k) \/ <<d.g, k>> \in severed

C6_Witness ==
    \E d \in done :
        /\ d.origin = "enable"
        /\ \E k1, k2 \in d.atStart :
              /\ FiredConn(d.g, k1)
              /\ <<d.g, k2>> \in severed /\ ~FiredConn(d.g, k2)

\* C7: a future from when_enabled() is resolved exactly while the gate is
\* enabled: born resolved on an enabled gate, unresolved on a pending gate
\* until enable() runs, resolved in every state after enable() has run.
C7_AwaitResolved ==
    \A f \in futures :
        /\ f.ready <=> is_enabled(f.g)
        /\ enables[f.g] > 0 => f.ready

C7_Witness ==
    \E f1, f2 \in futures :
        /\ f1.g = f2.g
        /\ ~f1.born /\ f1.ready
        /\ f2.born /\ f2.ready
        /\ enables[f1.g] > 0

\* C8: the shared promise has its value if and only if the gate is enabled.
C8_ResolvedIffEnabled == \A g \in Gates : pr[g] <=> is_enabled(g)

C8_Witness ==
    \E g \in Gates : ~initEnabled[g] /\ enables[g] > 0 /\ pr[g] /\ is_enabled(g)

\* C9 as claimed: the gate is enabled if and only if enable() has been called.
C9_Original == \A g \in Gates : is_enabled(g) <=> enables[g] > 0

\* C9 as amended: the gate is enabled if and only if it was constructed
\* enabled or enable() has been called.
C9_EnabledIffBuiltOrCalled ==
    \A g \in Gates : is_enabled(g) <=> (initEnabled[g] \/ enables[g] > 0)

C9_Witness ==
    \E g \in Gates : ~initEnabled[g] /\ enables[g] > 0 /\ is_enabled(g)

\* C10: the enabled flag never goes back: a step from a state in which the
\* gate is enabled leads to a state in which it is enabled.
C10_Monotonic == [][\A g \in Gates : is_enabled(g) => is_enabled(g)']_vars

C10_Witness ==
    \E g \in Gates :
        /\ is_enabled(g) /\ enables[g] > 0
        /\ \E h \in Handles : reg[h].g = g /\ reg[h].wasEnabled /\ destroyed[h]
        /\ \E f \in futures : f.g = g /\ f.born

\* C11 as claimed: on_enabled() of a listener is entered at most once over the
\* listener's whole life, whatever calls are made with it and on its gate.
C11_Original == \A h \in Handles : FiredCount(h) <= 1

\* C11 as amended: on_enabled() is entered at most once for each
\* when_enabled(listener&) call made with the listener: no connection calls
\* its slot twice, and a listener is never invoked more often than it was
\* registered.
C11_OncePerRegistration ==
    /\ \A i, j \in DOMAIN log :
          (log[i].g = log[j].g /\ log[i].k = log[j].k) => i = j
    /\ \A h \in Handles : FiredCount(h) <= reg[h].count

C11_Witness ==
    \E h \in Handles :
        /\ reg[h].count = 2 /\ FiredCount(h) = 2
        /\ enables[reg[h].g] > 0
        /\ \E i \in DOMAIN log : log[i].h = h /\ log[i].origin = "enable"
        /\ Quiescent

\* the firing behaviour of a listener that is registered once: never invoked
\* twice; invoked inside the registration call on an enabled gate; invoked
\* once the gate has become enabled and every call has returned, unless its
\* connection was cut before; never invoked after its connection was cut
FiresLikeListener(h) ==
    /\ FiredCount(h) <= 1
    /\ (reg[h].wasEnabled /\ ~InRegistration(h)) => FiredCount(h) = 1
    /\ (Quiescent /\ is_enabled(reg[h].g) /\ LastConn(h) \notin severed)
           => FiredCount(h) = 1
    /\ LastConn(h) \in severed => FiredCount(h) = 0

\* C12: a functor registered with when_enabled(function) is registered exactly
\* once, is invoked when the gate becomes enabled (inside the registration
\* call on an enabled gate) unless its token was destroyed while it was still
\* connected, and then never; a caller's listener registered once with
\* when_enabled(listener&) behaves the same.
C12_FunctionFiresLikeListener ==
    /\ \A h \in holders : reg[h].count = 1 /\ FiresLikeListener(h)
    /\ \A h \in Handles \ holders : reg[h].count = 1 => FiresLikeListener(h)

C12_Witness ==
    /\ Quiescent
    /\ \E a, b, c \in holders :
          /\ ~reg[a].wasEnabled /\ FiredCount(a) = 1
          /\ ~reg[b].wasEnabled /\ destroyed[b] /\ LastConn(b) \in severed
          /\ FiredCount(b) = 0 /\ reg[b].k < reg[a].k
          /\ reg[c].wasEnabled /\ FiredCount(c) = 1
          /\ enables[reg[a].g] = 1

\* a step that destroys listener h leaves the gates, the calls in progress and
\* every connection but h's own as they were
DestroyTouchesOnlyOwn(h) ==
    /\ enabled' = enabled /\ pr' = pr /\ futures' = futures
    /\ stack' = stack /\ log' = log
    /\ \A h2 \in Handles \ {h} : conn'[h2] = conn[h2]
    /\ \A g \in Gates :
          /\ Len(slots'[g]) = Len(slots[g])
          /\ \A i \in DOMAIN slots[g] :
                <<g, slots[g][i].k>> # conn[h] => slots'[g][i] = slots[g][i]

\* the connections of enable() invocation d that nobody cut are each invoked
\* exactly once, inside the invocation, in the order they were made
OthersStillNotified(d) ==
    /\ \A k \in d.atStart :
          <<d.g, k>> \notin severed =>
              Cardinality({i \in DOMAIN log :
                  i > d.logLen /\ log[i].g = d.g /\ log[i].k = k}) = 1
    /\ \A i, j \in DOMAIN log :
          (log[i].g = d.g /\ log[j].g = d.g /\ log[i].k < log[j].k
              /\ {log[i].k, log[j].k} \subseteq d.atStart) => i < j

\* C13: destroying a listener changes nothing but that listener's own
\* connection: the enabled flag, the shared promise and every other
\* connection are as before, and the listeners that stay connected are each
\* invoked exactly once, in their registration order, by enable().
C13_DestroyFrame ==
    /\ [][\A h \in Handles :
            (~destroyed[h] /\ destroyed'[h]) => DestroyTouchesOnlyOwn(h)]_vars
    /\ [](\A d \in done : d.origin = "enable" => OthersStillNotified(d))

C13_Witness ==
    \E d \in done :
        /\ d.origin = "enable"
        /\ \E k1, k3 \in d.atStart : \E k2 \in (k1 + 1)..(k3 - 1) :
              /\ k2 \notin d.atStart
              /\ <<d.g, k2>> \in severed
              /\ destroyed[HandleOf(d.g, k2)]
              /\ ~FiredConn(d.g, k2)
              /\ FiredConn(d.g, k1) /\ FiredConn(d.g, k3)

\* the frames on the call stacks
Frames == UNION {{stack[t][i] : i \in 1..Len(stack[t])} : t \in Tasks}

\* on_enabled() entered and not returned
Reactions == {f \in Frames : f.kind = "on_enabled"}

\* the connection whose slot call entered the reaction frame f
FiringConn(f) ==
    LET j == CHOOSE j \in DOMAIN log : log[j].pass = f.id /\ log[j].h = f.h
    IN  <<log[j].g, log[j].k>>

\* C14: in every state in which on_enabled() of a listener has been entered
\* and has not returned, running or suspended, the connection that called it
\* is disconnected already; a listener registered once has no live connection
\* at all while its reaction runs.
C14_SeveredBeforeReaction ==
    \A f \in Reactions :
        /\ \E j \in DOMAIN log : log[j].pass = f.id /\ log[j].h = f.h
        /\ ~Live(FiringConn(f))
        /\ reg[f.h].count = 1 => ~Live(conn[f.h])

C14_Witness ==
    \E f1, f2 \in Reactions :
        /\ f1.susp /\ ~f2.susp /\ f1.h # f2.h
        /\ ~Live(FiringConn(f1)) /\ ~Live(FiringConn(f2))
        /\ ~destroyed[f1.h] /\ ~destroyed[f2.h]

\* C15: whenever on_enabled() is entered, from the signal invocation of
\* enable() or from the one of a when_enabled(listener&) call, the gate is
\* enabled and its shared promise has its value already: enable() sets the
\* flag and resolves the promise before it invokes the signal, and no reaction
\* is entered while the gate is pending.
C15_EnabledAndResolvedFirst ==
    /\ \A i \in DOMAIN log : log[i].wasEnabled /\ log[i].wasResolved
    /\ \A f \in Frames : is_enabled(f.g) /\ pr[f.g]
    /\ \A fu \in futures :
          (\E i \in DOMAIN log : log[i].g = fu.g) => fu.ready

C15_Witness ==
    \E i, j \in DOMAIN log : \E fu \in futures :
        /\ log[i].origin = "enable" /\ log[j].origin = "when_enabled"
        /\ log[i].g = log[j].g /\ ~initEnabled[log[i].g]
        /\ log[i].wasEnabled /\ log[i].wasResolved
        /\ log[j].wasEnabled /\ log[j].wasResolved
        /\ fu.g = log[i].g /\ ~fu.born /\ fu.ready

\* task t is parked in a reaction that has yielded
Suspended(t) == stack[t] # << >> /\ Top(t).kind = "on_enabled" /\ Top(t).susp

\* the signal invocations of enable() that are in progress on task t
EnablePasses(t) ==
    {stack[t][i] : i \in {j \in 1..Len(stack[t]) :
        stack[t][j].kind = "pass" /\ stack[t][j].origin = "enable"}}

\* number of times the connection <<g, k>> called its slot after the first n
\* invocations of the history
FiredSince(g, k, n) ==
    Cardinality({i \in DOMAIN log : i > n /\ log[i].g = g /\ log[i].k = k})

LiveConns(h) ==
    {c \in UNION {{<<g, slots[g][i].k>> : i \in 1..Len(slots[g])} : g \in Gates} :
        Live(c) /\ HandleOf(c[1], c[2]) = h}

\* C17: a listener has at most one live connection, the one its _conn holds;
\* a connection cut by registering its listener again, on the same gate or on
\* the other one, is disconnected and never calls its slot, so enable() of the
\* earlier gate does not invoke the listener through it.
C17_OneLiveSubscription ==
    /\ \A h \in Handles :
          /\ Cardinality(LiveConns(h)) <= 1
          /\ LiveConns(h) \subseteq {conn[h]}
    /\ \A c \in severed : ~Live(c) /\ ~FiredConn(c[1], c[2])

C17_Witness ==
    \E h, b \in Handles : \E d \in done :
        /\ d.origin = "enable"
        /\ h # b
        /\ reg[h].count = 2 /\ reg[h].g # d.g /\ ~destroyed[h]
        /\ Live(conn[h])
        /\ \E c \in severed : c[1] = d.g /\ HandleOf(c[1], c[2]) = h /\ c[2] < reg[b].k
        /\ reg[b].g = d.g /\ reg[b].k \in d.atStart /\ FiredCount(b) = 1
        /\ FiredCount(h) = 0

\* a signal invocation on gate g is in progress: an enable() or a
\* when_enabled(listener&) call on it has not returned
CallInProgress(g) == \E f \in Frames : f.kind = "pass" /\ f.g = g

\* C18: whenever a gate is enabled and no enable() or when_enabled(listener&)
\* call on it is in progress, no connection of its signal is connected: every
\* listener registered on it was invoked and disconnected, or was cut.
C18_EnabledIdleHasNoObserver ==
    \A g \in Gates :
        (is_enabled(g) /\ ~CallInProgress(g)) =>
            \A i \in 1..Len(slots[g]) :
                /\ ~slots[g][i].on
                /\ FiredConn(g, slots[g][i].k) \/ <<g, slots[g][i].k>> \in severed

C18_Witness ==
    \E g \in Gates :
        /\ is_enabled(g) /\ ~CallInProgress(g) /\ enables[g] > 0
        /\ \E i, j, l \in 1..Len(slots[g]) :
              /\ ~reg[slots[g][i].h].wasEnabled /\ FiredConn(g, slots[g][i].k)
              /\ <<g, slots[g][j].k>> \in severed
              /\ reg[slots[g][l].h].k = slots[g][l].k
              /\ reg[slots[g][l].h].wasEnabled /\ FiredConn(g, slots[g][l].k)

\* the signal invocations of when_enabled(listener&) calls that have returned
\* and whose listener was not registered again since
Registrations ==
    {d \in done : d.origin = "when_enabled" /\ reg[d.h].count = 1}

\* the connections that were waiting for an invocation in progress when the
\* registration call of d connected its own
PendingAt(d) == d.atStart \ {reg[d.h].k}

====
